---- MODULE Spec2Model ----
(***************************************************************************)
(* Model of src/lambda_function.py: the S3-triggered handler that turns    *)
(* the tables of a PDF into an Excel workbook.                             *)
(*                                                                         *)
(* Python strings are sequences of one-character strings, so that          *)
(* startswith, endswith, lower, unquote_plus, basename and splitext are    *)
(* computed character by character as the library computes them.           *)
(* Python values whose type matters (a detected cell is None, a str or a   *)
(* number) are tagged records.                                             *)
(***************************************************************************)
EXTENDS Integers, Sequences, FiniteSets, TLC

VARIABLES
    cfg,        \* INPUT_FOLDER_NAME / OUTPUT_FOLDER_NAME of the execution context
    pc,         \* position of the handler: "idle", "loop", "done"
    event,      \* the event of the current invocation
    idx,        \* 1-based index of the next record of the for loop
    s3calls,    \* the s3_client calls of the current invocation, in call order
    responses,  \* the responses the current invocation has returned
    raised,     \* the exception the current invocation caught (NoExc if none)
    selfTrig,   \* TRUE when the event notifies an object this system wrote
    tpc,        \* position of the direct use of the two pure functions
    tdoc,       \* the document handed to extract_tables_from_pdf
    ttables,    \* the TableSet it returned / the one handed to the builder
    twb         \* the workbook create_excel_from_tables built

vars == <<cfg, pc, event, idx, s3calls, responses, raised, selfTrig,
          tpc, tdoc, ttables, twb>>
hvars == <<cfg, pc, event, idx, s3calls, responses, raised, selfTrig>>
tvars == <<tpc, tdoc, ttables, twb>>

(***************************************************************************)
(* Bounds of the model.                                                    *)
(***************************************************************************)
MaxRecords == 2
MaxPages == 2
MaxTables == 2
MaxRows == 2
MaxCols == 2

(***************************************************************************)
(* Strings.                                                                *)
(***************************************************************************)
UpperLetters ==
    <<"A","B","C","D","E","F","G","H","I","J","K","L","M",
      "N","O","P","Q","R","S","T","U","V","W","X","Y","Z">>
LowerLetters ==
    <<"a","b","c","d","e","f","g","h","i","j","k","l","m",
      "n","o","p","q","r","s","t","u","v","w","x","y","z">>

DecDigits == <<"0","1","2","3","4","5","6","7","8","9">>

HexDigits ==
    <<"0","1","2","3","4","5","6","7","8","9","a","b","c","d","e","f">>

\* str.lower() of one ASCII character
LowerChar(c) ==
    IF \E i \in 1..26 : UpperLetters[i] = c
    THEN LowerLetters[CHOOSE i \in 1..26 : UpperLetters[i] = c]
    ELSE c

\* str.lower()
Lower(s) == [i \in 1..Len(s) |-> LowerChar(s[i])]

\* str.startswith(prefix)
StartsWith(s, prefix) ==
    /\ Len(s) >= Len(prefix)
    /\ SubSeq(s, 1, Len(prefix)) = prefix

\* str.endswith(suffix)
EndsWith(s, suffix) ==
    /\ Len(s) >= Len(suffix)
    /\ SubSeq(s, Len(s) - Len(suffix) + 1, Len(s)) = suffix

\* str.rfind(c): the last 1-based position of c in s, 0 when there is none
RFind(s, c) ==
    IF \E i \in 1..Len(s) : s[i] = c
    THEN CHOOSE i \in 1..Len(s) :
            /\ s[i] = c
            /\ \A j \in (i + 1)..Len(s) : s[j] # c
    ELSE 0

IsHex(c) == \E i \in 1..16 : HexDigits[i] = LowerChar(c)
HexVal(c) == (CHOOSE i \in 1..16 : HexDigits[i] = LowerChar(c)) - 1

\* chr(n) of a decoded byte: letters, digits and the punctuation that keys
\* hold; any other byte shows as the replacement mark
Chr(n) ==
    CASE n \in 48..57 -> DecDigits[n - 47]
      [] n \in 65..90 -> UpperLetters[n - 64]
      [] n \in 97..122 -> LowerLetters[n - 96]
      [] n = 32 -> " "
      [] n = 37 -> "%"
      [] n = 43 -> "+"
      [] n = 45 -> "-"
      [] n = 46 -> "."
      [] n = 47 -> "/"
      [] n = 95 -> "_"
      [] OTHER -> "<?>"

\* urllib.parse.unquote: every %XX with two hex digits becomes its byte,
\* a % not followed by two hex digits stays as it is
RECURSIVE Unquote(_)
Unquote(s) ==
    IF s = <<>> THEN <<>>
    ELSE IF s[1] = "%" /\ Len(s) >= 3 /\ IsHex(s[2]) /\ IsHex(s[3])
         THEN <<Chr(16 * HexVal(s[2]) + HexVal(s[3]))>>
                  \o Unquote(SubSeq(s, 4, Len(s)))
         ELSE <<s[1]>> \o Unquote(Tail(s))

\* urllib.parse.unquote_plus: a plus sign becomes a space, then unquote
UnquotePlus(s) ==
    Unquote([i \in 1..Len(s) |-> IF s[i] = "+" THEN " " ELSE s[i]])

\* a basename that keeps the directories
BasenameWholeKey(p) == p

\* os.path.basename (posixpath): what follows the last '/'
Basename(p) == SubSeq(p, RFind(p, "/") + 1, Len(p))

\* os.path.splitext(p)[0] (posixpath): the text before the last '.', unless
\* that dot is not after the last '/' or only dots precede it in the name
SplitextRoot(p) ==
    LET sepIndex == RFind(p, "/")
        dotIndex == RFind(p, ".")
    IN  IF /\ dotIndex > sepIndex
           /\ \E k \in (sepIndex + 1)..(dotIndex - 1) : p[k] # "."
        THEN SubSeq(p, 1, dotIndex - 1)
        ELSE p

(***************************************************************************)
(* Configuration (module level, read once per execution context).          *)
(***************************************************************************)
DOT_PDF == <<".","p","d","f">>
DOT_XLSX == <<".","x","l","s","x">>
SLASH == <<"/">>

DefaultInputFolder ==
    <<"i","n","p","u","t","-","p","d","f","-","f","i","l","e","s">>
DefaultOutputFolder ==
    <<"o","u","t","p","u","t","-","f","i","l","e","s">>
SharedFolder == <<"d","a","t","a">>

\* the defaults, and an environment that names one folder for both
Configs ==
    { [input |-> DefaultInputFolder, output |-> DefaultOutputFolder],
      [input |-> SharedFolder, output |-> SharedFolder] }

\* the folder test without the separator
InInputFolderNoSlash(key) == StartsWith(key, cfg.input)

\* lines 66-69: the file is in the input folder
InInputFolder(key) == StartsWith(key, cfg.input \o SLASH)

\* lines 71-74: the file is a PDF
IsPdfKey(key) == EndsWith(Lower(key), DOT_PDF)

\* an output key that keeps the file name as it is
OutputKeyKeepsName(key) == cfg.output \o SLASH \o Basename(key)

\* lines 115-118: the output key
OutputKey(key) ==
    LET filename == Basename(key)
        filename_without_ext == SplitextRoot(filename)
    IN  cfg.output \o SLASH \o filename_without_ext \o DOT_XLSX

(***************************************************************************)
(* Python values and documents.                                            *)
(***************************************************************************)
PyNone == [t |-> "NoneType"]
PyStr(s) == [t |-> "str", v |-> s]
PyInt(n) == [t |-> "int", v |-> n]

\* str(n) of a natural number
RECURSIVE NatStr(_)
NatStr(n) ==
    IF n < 10 THEN <<DecDigits[n + 1]>>
    ELSE NatStr(n \div 10) \o <<DecDigits[(n % 10) + 1]>>

\* str(n) of an integer
IntStr(n) == IF n < 0 THEN <<"-">> \o NatStr(-n) ELSE NatStr(n)

\* str(value) of a value that is not None
Str(value) == IF value.t = "str" THEN value.v ELSE IntStr(value.v)

\* bool(value) of a cell value: None and the empty string are false
Truthy(value) == value # PyNone /\ value # PyStr(<<>>)

\* bytes pdfplumber cannot open
InvalidDoc == [valid |-> FALSE, pages |-> <<>>]
\* pdf.pages, each page being what page.extract_tables() yields for it
PdfDoc(pages) == [valid |-> TRUE, pages |-> pages]

(***************************************************************************)
(* extract_tables_from_pdf                                                 *)
(***************************************************************************)
\* a cleaning that lets None through
CleanCellKeepNone(cell) == IF cell # PyNone THEN PyStr(Str(cell)) ELSE PyNone

\* line 157: one cell of the cleaned table
CleanCell(cell) == IF cell # PyNone THEN PyStr(Str(cell)) ELSE PyStr(<<>>)

\* lines 156-159: the cleaned table
CleanTable(table) ==
    [r \in 1..Len(table) |->
        [c \in 1..Len(table[r]) |-> CleanCell(table[r][c])]]

\* line 154: the table is kept
KeepTable(table) == table # <<>>

\* lines 153-160: the tables one page adds, in detection order
RECURSIVE PageTables(_)
PageTables(page_tables) ==
    IF page_tables = <<>> THEN <<>>
    ELSE (IF KeepTable(Head(page_tables))
          THEN <<CleanTable(Head(page_tables))>>
          ELSE <<>>) \o PageTables(Tail(page_tables))

\* the pages walked last to first
RECURSIVE PagesTablesLastFirst(_)
PagesTablesLastFirst(pages) ==
    IF pages = <<>> THEN <<>>
    ELSE PagesTablesLastFirst(Tail(pages)) \o PageTables(Head(pages))

\* lines 147-160: the loop over the pages, in page order
RECURSIVE PagesTables(_)
PagesTables(pages) ==
    IF pages = <<>> THEN <<>>
    ELSE PageTables(Head(pages)) \o PagesTables(Tail(pages))

\* lines 132-163 for a document pdfplumber opens
ExtractTables(doc) == PagesTables(doc.pages)

(***************************************************************************)
(* create_excel_from_tables                                                *)
(***************************************************************************)
WIDTH_PAD == 2
WIDTH_CAP == 50

Max(S) == CHOOSE x \in S : \A y \in S : y <= x
Min2(a, b) == IF a <= b THEN a ELSE b

\* openpyxl's Workbook(): one empty sheet titled "Sheet"
DefaultSheet ==
    [title |-> <<"S","h","e","e","t">>,
     cells |-> [pos \in {} |-> PyNone],
     widths |-> <<>>]

\* line 185
SheetName(n) == <<"T","a","b","l","e","_">> \o IntStr(n)

\* cells written with row and column swapped
SheetCellsTransposed(table) ==
    [pos \in UNION {{<<c, r>> : c \in 1..Len(table[r])} : r \in 1..Len(table)}
        |-> table[pos[2]][pos[1]]]

\* lines 188-190: the cells written, keyed by <<row, column>>, both 1-based
SheetCells(table) ==
    [pos \in UNION {{<<r, c>> : c \in 1..Len(table[r])} : r \in 1..Len(table)}
        |-> table[pos[1]][pos[2]]]

\* lines 193-203: the width of every column of the sheet
ColumnWidths(cells) ==
    LET cols == {pos[2] : pos \in DOMAIN cells}
        ncols == IF cols = {} THEN 0 ELSE Max(cols)
        lengths(c) == {Len(Str(cells[pos])) :
                          pos \in {q \in DOMAIN cells :
                                      q[2] = c /\ Truthy(cells[q])}}
        max_length(c) == Max(lengths(c) \cup {0})
    IN  [c \in 1..ncols |-> Min2(max_length(c) + WIDTH_PAD, WIDTH_CAP)]

\* lines 183-203: the sheet made for the table at 1-based position n
MakeSheet(n, table) ==
    LET cells == SheetCells(table)
    IN  [title |-> SheetName(n), cells |-> cells, widths |-> ColumnWidths(cells)]

\* lines 176-210: the workbook that is saved, as its sequence of sheets
CreateExcelFromTables(tables) ==
    IF tables # <<>>
    THEN [n \in 1..Len(tables) |-> MakeSheet(n, tables[n])]
    ELSE <<DefaultSheet>>

(***************************************************************************)
(* Events, storage outcomes and responses.                                 *)
(***************************************************************************)
NoExc == [cls |-> "none", stage |-> "none", rec |-> 0]
Exc(cls, stage, rec) == [cls |-> cls, stage |-> stage, rec |-> rec]

\* the exception classes the handler tells apart (lines 81 and 84):
\* botocore's ClientError, and every other Exception
ExcClasses == {"ClientError", "Exception"}
\* what a call of s3_client.get_object / put_object can do
CallOutcomes == {"ok"} \cup ExcClasses

\* a record holding record["s3"]["bucket"]["name"] and record["s3"]["object"]["key"]
Record(bucket, key) == [wf |-> TRUE, bucket |-> bucket, key |-> key]
\* a record without that path: the subscript of line 61 or 62 raises
MalformedRecord == [wf |-> FALSE, bucket |-> "", key |-> <<>>]

\* an event with a "Records" list, and one without the key
EventOf(records) == [has |-> TRUE, records |-> records]
NoRecordsKey == [has |-> FALSE, records |-> <<>>]

MSG_NO_RECORDS == "No records found in event"
MSG_DONE == "PDF processing completed successfully"
PREFIX_AWS == "AWS Error: "
PREFIX_ERROR == "Error: "
XLSX_MIME == "application/vnd.openxmlformats-officedocument.spreadsheetml.sheet"

\* "No tables found in the PDF file"
NO_TABLES_MESSAGE ==
    <<"N","o"," ","t","a","b","l","e","s"," ","f","o","u","n","d"," ",
      "i","n"," ","t","h","e"," ","P","D","F"," ","f","i","l","e">>

\* lines 213-227: message is <<fixed text, str(e)>>, the two parts of the
\* f-string in order (str(e) is "" for the fixed messages)
CreateResponse(status_code, message) ==
    [statusCode |-> status_code, body |-> [message |-> message]]

\* lines 81-86: the response for a caught exception
ErrorResponse(exc) ==
    IF exc.cls = "ClientError"
    THEN CreateResponse(500, <<PREFIX_AWS, exc.cls>>)
    ELSE CreateResponse(500, <<PREFIX_ERROR, exc.cls>>)

\* one s3_client call: rec is the record whose conversion made it, outcome
\* what the call did, Read what pdf_object["Body"].read() returned
GetCall(rec, bucket, key, outcome, doc) ==
    [op |-> "get_object", rec |-> rec, Bucket |-> bucket, Key |-> key,
     outcome |-> outcome, Read |-> doc]
PutCall(rec, bucket, key, body, outcome) ==
    [op |-> "put_object", rec |-> rec, Bucket |-> bucket, Key |-> key,
     Body |-> body, ContentType |-> XLSX_MIME, outcome |-> outcome]

(***************************************************************************)
(* process_pdf                                                             *)
(***************************************************************************)
\* no placeholder
TablesUnchanged(tables) == tables

\* lines 106-109: the placeholder TableSet for an empty extraction
TablesOrPlaceholder(tables) ==
    IF tables = <<>> THEN << << <<PyStr(NO_TABLES_MESSAGE)>> >> >> ELSE tables

\* lines 89-129, for record number rec. env is what the world outside does:
\* env.get the outcome of the read (get_object and Body.read()), env.doc the
\* bytes read, env.build whether openpyxl accepts and saves the tables,
\* env.put the outcome of put_object.
\* The result is the storage calls made, in order, and the exception that
\* left process_pdf (NoExc when it returned).
ProcessPdf(rec, bucket, key, env) ==
    LET get == GetCall(rec, bucket, key, env.get, env.doc)
        tables == TablesOrPlaceholder(ExtractTables(env.doc))
        excel_content == CreateExcelFromTables(tables)
        put == PutCall(rec, bucket, OutputKey(key), excel_content, env.put)
    IN  IF env.get # "ok"
        THEN [calls |-> <<get>>, exc |-> Exc(env.get, "get_object", rec)]
        ELSE IF ~env.doc.valid
        THEN [calls |-> <<get>>, exc |-> Exc("Exception", "extract", rec)]
        ELSE IF env.build # "ok"
        THEN [calls |-> <<get>>, exc |-> Exc("Exception", "build", rec)]
        ELSE IF env.put # "ok"
        THEN [calls |-> <<get, put>>, exc |-> Exc(env.put, "put_object", rec)]
        ELSE [calls |-> <<get, put>>, exc |-> NoExc]

(***************************************************************************)
(* The inputs the model draws from.                                        *)
(***************************************************************************)
BUCKET_NAME == "magnifact-pdf"
OtherBucket == "archive-bucket"

\* Object keys as the notification carries them (URL-encoded), for the
\* input folder name f.
KeyReport(f) == f \o <<"/","r","e","p","o","r","t",".","p","d","f">>
KeyDeepUpper(f) ==
    f \o <<"/","s","u","b","/","d","i","r","/","r","e","p","o","r","t",".","P","D","F">>
KeyDotfile(f) == f \o <<"/",".","p","d","f">>
KeyEncoded(f) == f \o <<"%","2","F","m","y","+","f","i","l","e","%","2","e","p","d","f">>
KeyOtherFolder(f) ==
    <<"o","t","h","e","r","-","f","o","l","d","e","r","/","d","o","c",".","p","d","f">>
KeyText(f) == f \o <<"/","d","o","c","u","m","e","n","t",".","t","x","t">>
KeyNoSlash(f) == f \o <<"r","e","p","o","r","t",".","p","d","f">>
KeyUpperFolder(f) ==
    [i \in 1..Len(f) |->
        IF \E j \in 1..26 : LowerLetters[j] = f[i]
        THEN UpperLetters[CHOOSE j \in 1..26 : LowerLetters[j] = f[i]]
        ELSE f[i]] \o <<"/","r","e","p","o","r","t",".","p","d","f">>

\* the records an external event may hold under input folder name f
SampleRecords(f) ==
    { Record(BUCKET_NAME, KeyReport(f)),
      Record(OtherBucket, KeyDeepUpper(f)),
      Record(BUCKET_NAME, KeyDotfile(f)),
      Record(BUCKET_NAME, KeyEncoded(f)),
      Record(BUCKET_NAME, KeyOtherFolder(f)),
      Record(BUCKET_NAME, KeyText(f)),
      Record(BUCKET_NAME, KeyNoSlash(f)),
      Record(OtherBucket, KeyUpperFolder(f)),
      MalformedRecord }

SeqsUpTo(S, n) == UNION {[1..k -> S] : k \in 0..n}

\* the events: no "Records" key, and every list of at most MaxRecords records
Events(f) == {NoRecordsKey} \cup {EventOf(rs) : rs \in SeqsUpTo(SampleRecords(f), MaxRecords)}

\* detected tables (a cell is None, a str or a number)
TableA ==
    << <<PyStr(<<"a">>), PyNone>>, <<PyInt(7), PyStr(<<"b">>)>> >>
TableB == << <<PyStr(<<"x">>)>> >>

\* the documents a storage read returns to the handler
HandlerDocs ==
    { InvalidDoc,
      PdfDoc(<<>>),
      PdfDoc(<< << <<>> >> >>),
      PdfDoc(<< <<TableB>>, <<>>, <<TableA, <<>> >> >>) }

\* what the world outside does during one process_pdf
\* (a step that is not reached has one value only; openpyxl can reject
\* detected text, never the fixed placeholder message)
Envs ==
    {env \in [get : CallOutcomes, doc : HandlerDocs,
               build : {"ok", "Exception"}, put : CallOutcomes] :
        /\ env.get # "ok" => env.doc = InvalidDoc
        /\ ~env.doc.valid => env.build = "ok"
        /\ env.build # "ok" => env.put = "ok" /\ ExtractTables(env.doc) # <<>>}

\* the key S3 puts in the notification of an object: URL-encoded, a space
\* as a plus sign
RECURSIVE S3NotificationKey(_)
S3NotificationKey(key) ==
    IF key = <<>> THEN <<>>
    ELSE (CASE Head(key) = " " -> <<"+">>
            [] Head(key) = "+" -> <<"%","2","B">>
            [] Head(key) = "%" -> <<"%","2","5">>
            [] OTHER -> <<Head(key)>>) \o S3NotificationKey(Tail(key))

(***************************************************************************)
(* lambda_handler                                                          *)
(***************************************************************************)
\* a check that only asks whether the "Records" key is there
HasNoRecordsKeyOnly(ev) == ~ev.has

\* lines 54-55: records = event.get("Records", []); not records
HasNoRecords(ev) == ~ev.has \/ ev.records = <<>>

\* lines 52-57: the event arrives; an absent or empty record list is
\* answered at once
Start(ev, self) ==
    /\ event' = ev
    /\ selfTrig' = self
    /\ idx' = 1
    /\ s3calls' = <<>>
    /\ raised' = NoExc
    /\ IF HasNoRecords(ev)
       THEN /\ responses' = <<CreateResponse(400, <<MSG_NO_RECORDS, "">>)>>
            /\ pc' = "done"
       ELSE /\ responses' = <<>>
            /\ pc' = "loop"
    /\ UNCHANGED <<cfg, tvars>>

\* an upload (or any caller) invokes the handler
Invoke ==
    /\ pc = "idle"
    /\ \E ev \in Events(cfg.input) : Start(ev, FALSE)

\* S3 notifies an object the last invocation wrote
SelfNotify ==
    /\ pc = "done"
    /\ \E i \in 1..Len(s3calls) :
        /\ s3calls[i].op = "put_object"
        /\ s3calls[i].outcome = "ok"
        /\ Start(EventOf(<<Record(s3calls[i].Bucket,
                                   S3NotificationKey(s3calls[i].Key))>>), TRUE)

\* a handler that notes the error of one record and goes on with the next
CatchAndContinue(calls, exc) ==
    /\ s3calls' = s3calls \o calls
    /\ raised' = exc
    /\ idx' = idx + 1
    /\ UNCHANGED <<responses, pc>>

\* lines 81-86: an exception leaves the try block
Catch(calls, exc) ==
    /\ s3calls' = s3calls \o calls
    /\ raised' = exc
    /\ responses' = Append(responses, ErrorResponse(exc))
    /\ pc' = "done"
    /\ UNCHANGED idx

\* lines 59-77: one iteration of the for loop
HandleRecord ==
    /\ pc = "loop"
    /\ idx <= Len(event.records)
    /\ LET record == event.records[idx]
           bucket == record.bucket
           key == UnquotePlus(record.key)
       IN  IF ~record.wf
           THEN Catch(<<>>, Exc("Exception", "record", idx))
           ELSE IF ~InInputFolder(key) \/ ~IsPdfKey(key)
           THEN /\ idx' = idx + 1
                /\ UNCHANGED <<s3calls, raised, responses, pc>>
           ELSE \E env \in Envs :
                   LET r == ProcessPdf(idx, bucket, key, env)
                   IN  IF r.exc # NoExc
                       THEN Catch(r.calls, r.exc)
                       ELSE /\ s3calls' = s3calls \o r.calls
                            /\ idx' = idx + 1
                            /\ UNCHANGED <<raised, responses, pc>>
    /\ UNCHANGED <<cfg, event, selfTrig, tvars>>

\* line 79: the loop ended without an exception
Complete ==
    /\ pc = "loop"
    /\ idx > Len(event.records)
    /\ responses' = Append(responses, CreateResponse(200, <<MSG_DONE, "">>))
    /\ pc' = "done"
    /\ UNCHANGED <<cfg, event, idx, s3calls, raised, selfTrig, tvars>>

\* the invocation is over and the execution context waits for the next event
Return ==
    /\ pc = "done"
    /\ pc' = "idle"
    /\ event' = NoRecordsKey
    /\ idx' = 1
    /\ s3calls' = <<>>
    /\ responses' = <<>>
    /\ raised' = NoExc
    /\ selfTrig' = FALSE
    /\ UNCHANGED <<cfg, tvars>>

NoDoc == PdfDoc(<<>>)

Init ==
    /\ cfg \in Configs
    /\ pc = "idle"
    /\ event = NoRecordsKey
    /\ idx = 1
    /\ s3calls = <<>>
    /\ responses = <<>>
    /\ raised = NoExc
    /\ selfTrig = FALSE
    /\ tpc = "off"
    /\ tdoc = NoDoc
    /\ ttables = <<>>
    /\ twb = <<>>

Next == Invoke \/ SelfNotify \/ HandleRecord \/ Complete \/ Return

Spec == Init /\ [][Next]_vars

(***************************************************************************)
(* The two pure functions used on their own, as the tests use them:        *)
(* extract_tables_from_pdf on a document, create_excel_from_tables on the  *)
(* extracted TableSet or on a TableSet given directly.                     *)
(***************************************************************************)
\* every detected table of at most MaxRows rows of at most MaxCols cells,
\* a cell holding no text or a str (TableA adds a number)
DetCells == {PyNone, PyStr(<<"a">>)}
DetTables == SeqsUpTo(SeqsUpTo(DetCells, MaxCols), MaxRows)

\* the documents handed to the extractor: one page holding any one table,
\* every layout of at most MaxPages pages of at most MaxTables tables drawn
\* from two tables that differ, and the handler's documents
ExtractorDocs ==
    {PdfDoc(<< <<t>> >>) : t \in DetTables}
    \cup {PdfDoc(pages) :
            pages \in SeqsUpTo(SeqsUpTo({TableA, TableB}, MaxTables), MaxPages)}
    \cup (HandlerDocs \ {InvalidDoc})

\* the TableSets handed to the builder directly: any one table of strings,
\* and every list of at most MaxTables tables drawn from three of them
StrCells == {PyStr(<<>>), PyStr(<<"a">>)}
StrTables == SeqsUpTo(SeqsUpTo(StrCells, MaxCols), MaxRows)
BuilderInputs ==
    {<<t>> : t \in StrTables}
    \cup SeqsUpTo({<<>>, CleanTable(TableA), CleanTable(TableB)}, MaxTables)

InitT ==
    /\ cfg = [input |-> DefaultInputFolder, output |-> DefaultOutputFolder]
    /\ pc = "idle"
    /\ event = NoRecordsKey
    /\ idx = 1
    /\ s3calls = <<>>
    /\ responses = <<>>
    /\ raised = NoExc
    /\ selfTrig = FALSE
    /\ twb = <<>>
    /\ \/ /\ tpc = "doc"
          /\ tdoc \in ExtractorDocs
          /\ ttables = <<>>
       \/ /\ tpc = "tables"
          /\ tdoc = NoDoc
          /\ ttables \in BuilderInputs

\* tables = extract_tables_from_pdf(pdf_content)
Extract ==
    /\ tpc = "doc"
    /\ ttables' = ExtractTables(tdoc)
    /\ tpc' = "extracted"
    /\ UNCHANGED <<hvars, tdoc, twb>>

\* excel_content = create_excel_from_tables(tables)
Build ==
    /\ tpc \in {"extracted", "tables"}
    /\ twb' = CreateExcelFromTables(ttables)
    /\ tpc' = IF tpc = "tables" THEN "built" ELSE "piped"
    /\ UNCHANGED <<hvars, tdoc, ttables>>

NextT == Extract \/ Build

SpecT == InitT /\ [][NextT]_vars

(***************************************************************************)
(* What the claims speak of, stated on its own terms.                      *)
(***************************************************************************)
Status == responses[1].statusCode
Message == responses[1].body.message

\* s begins with p, character by character
BeginsWith(s, p) ==
    /\ Len(p) <= Len(s)
    /\ \A i \in 1..Len(p) : s[i] = p[i]

\* s ends with p, character by character
FinishesWith(s, p) ==
    /\ Len(p) <= Len(s)
    /\ \A i \in 1..Len(p) : s[Len(s) - Len(p) + i] = p[i]

\* s ends with ".pdf" in any mix of upper and lower case
HasPdfSuffix(s) ==
    /\ Len(s) >= 4
    /\ s[Len(s) - 3] = "."
    /\ s[Len(s) - 2] \in {"p", "P"}
    /\ s[Len(s) - 1] \in {"d", "D"}
    /\ s[Len(s)] \in {"f", "F"}

\* the decoded key of record r is under "<input_folder>/" and ends in ".pdf"
Qualifies(r) ==
    /\ r.wf
    /\ LET key == UnquotePlus(r.key)
       IN  BeginsWith(key, cfg.input \o <<"/">>) /\ HasPdfSuffix(key)

\* the record is well formed and one of the two filters skips it
Skipped(r) == r.wf /\ ~Qualifies(r)

CallsOf(j) == {i \in 1..Len(s3calls) : s3calls[i].rec = j}
PutsOf(j) == {i \in CallsOf(j) : s3calls[i].op = "put_object"}

\* C1: an event whose record list is absent or empty is answered with status
\* 400 and the message "No records found in event", with no storage call.
C1_NoRecords400 ==
    (pc # "idle" /\ (~event.has \/ event.records = <<>>)) =>
        /\ pc = "done"
        /\ Len(responses) = 1
        /\ Status = 400
        /\ Message = <<"No records found in event", "">>
        /\ s3calls = <<>>

C1_Witness ==
    /\ pc = "done"
    /\ event.has
    /\ event.records = <<>>
    /\ Status = 400

\* C2: a storage call is made only for a record whose decoded key starts
\* with "<input_folder>/" and ends with ".pdf" in any case; a skipped record
\* makes no call and is never the record an error response comes from, and an
\* event whose records are all skipped ends with status 200 and no call.
C2_OnlyQualifyingConverted ==
    LET skipped == [j \in 1..Len(event.records) |-> Skipped(event.records[j])]
    IN  /\ \A i \in 1..Len(s3calls) :
                /\ event.records[s3calls[i].rec].wf
                /\ ~skipped[s3calls[i].rec]
        /\ raised # NoExc => ~skipped[raised.rec]
        /\ \A j \in 1..Len(event.records) : skipped[j] => CallsOf(j) = {}
        /\ (/\ pc = "done"
            /\ event.records # <<>>
            /\ \A j \in 1..Len(event.records) : skipped[j])
           => (Len(responses) = 1 /\ Status = 200 /\ s3calls = <<>>)

C2_Witness ==
    /\ pc = "done"
    /\ Len(event.records) = 2
    /\ Skipped(event.records[1])
    /\ event.records[1].key = KeyUpperFolder(cfg.input)
    /\ PutsOf(2) # {}
    /\ CallsOf(1) = {}
    /\ Status = 200

\* C3: the storage calls follow the payload order, one record's read and
\* write done before the next record's read; after an exception in record i
\* no call is made for a later record, the writes of the records before i
\* stay made, and exactly one response, of status 500, is returned.
C3_SequentialAbort ==
    /\ \A i \in 1..Len(s3calls) :
            /\ s3calls[i].rec \in 1..Len(event.records)
            /\ s3calls[i].rec < idx \/ pc = "done"
            /\ s3calls[i].op \in {"get_object", "put_object"}
            /\ s3calls[i].op = "get_object" =>
                    /\ s3calls[i].Key = UnquotePlus(event.records[s3calls[i].rec].key)
                    /\ s3calls[i].Bucket = event.records[s3calls[i].rec].bucket
    /\ \A i \in 1..(Len(s3calls) - 1) :
            /\ s3calls[i].outcome = "ok"
            /\ \/ /\ s3calls[i].rec = s3calls[i + 1].rec
                  /\ s3calls[i].op = "get_object"
                  /\ s3calls[i + 1].op = "put_object"
               \/ /\ s3calls[i].rec < s3calls[i + 1].rec
                  /\ s3calls[i].op = "put_object"
                  /\ s3calls[i + 1].op = "get_object"
    /\ s3calls # <<>> => s3calls[1].op = "get_object"
    /\ raised # NoExc =>
            /\ pc = "done"
            /\ \A i \in 1..Len(s3calls) : s3calls[i].rec <= raised.rec
            /\ \A j \in 1..(raised.rec - 1) :
                    Qualifies(event.records[j]) =>
                        \E i \in PutsOf(j) : s3calls[i].outcome = "ok"
            /\ Len(responses) = 1
            /\ Status = 500
    /\ pc = "done" => Len(responses) = 1
    /\ pc # "done" => responses = <<>>

C3_Witness ==
    /\ raised # NoExc
    /\ raised.rec = 1
    /\ raised.stage = "put_object"
    /\ Len(event.records) = 2
    /\ Qualifies(event.records[2])
    /\ CallsOf(2) = {}
    /\ Status = 500

\* the writes made before the failing record stay made
C3_EarlierWritesKept ==
    /\ raised # NoExc
    /\ raised.rec = 2
    /\ \E i \in PutsOf(1) : s3calls[i].outcome = "ok"
    /\ Status = 500

\* C4: every exception is answered with status 500; a failed storage read or
\* write gives a message starting with "AWS Error: ", any other exception
\* one starting with "Error: "; status 200 only when no record raised.
C4_ErrorPrefixes ==
    pc = "done" =>
        /\ raised # NoExc =>
                /\ Len(responses) = 1
                /\ Status = 500
                /\ raised.stage \in {"get_object", "put_object"} =>
                        Message[1] = "AWS Error: "
                /\ raised.stage \in {"record", "extract", "build"} =>
                        Message[1] = "Error: "
        /\ Status = 200 => raised = NoExc

\* what holds of the code: the prefix follows the class of the exception,
\* "AWS Error: " for a ClientError and "Error: " for any other, whichever
\* step raised it
C4_PrefixFollowsClass ==
    pc = "done" =>
        /\ raised # NoExc =>
                /\ Len(responses) = 1
                /\ Status = 500
                /\ raised.cls = "ClientError" <=> Message[1] = "AWS Error: "
                /\ raised.cls # "ClientError" <=> Message[1] = "Error: "
                /\ raised.cls = "ClientError" =>
                        raised.stage \in {"get_object", "put_object"}
        /\ Status = 200 =>
                /\ raised = NoExc
                /\ \A j \in 1..Len(event.records) :
                        \/ Skipped(event.records[j])
                        \/ \E i \in PutsOf(j) : s3calls[i].outcome = "ok"

\* the last path component of a key
RECURSIVE LastComponent(_)
LastComponent(k) ==
    IF \E i \in 1..Len(k) : k[i] = "/"
    THEN LastComponent(Tail(k))
    ELSE k

\* the component without its last four characters
DropPdfSuffix(name) == SubSeq(name, 1, Len(name) - 4)

\* nothing but dots comes before the final "pdf"
OnlyDotsBeforePdf(name) == \A i \in 1..(Len(name) - 3) : name[i] = "."

GetOf(j) == s3calls[CHOOSE i \in CallsOf(j) : s3calls[i].op = "get_object"]

\* C5 as stated: every write goes to the bucket read from, at
\* "<output_folder>/<base>.xlsx", base being the last path component of the
\* input key without its ".pdf" extension.
C5_OutputKeyStripsExtension ==
    \A i \in 1..Len(s3calls) :
        s3calls[i].op = "put_object" =>
            /\ s3calls[i].Bucket = GetOf(s3calls[i].rec).Bucket
            /\ s3calls[i].Key =
                    cfg.output \o <<"/">>
                    \o DropPdfSuffix(LastComponent(GetOf(s3calls[i].rec).Key))
                    \o <<".","x","l","s","x">>

\* C5 as amended: the extension is stripped unless the last path component
\* has only dots before "pdf" (".pdf", "..PDF"), which is kept whole.
C5_OutputKeyDerivation ==
    \A i \in 1..Len(s3calls) :
        s3calls[i].op = "put_object" =>
            LET in == GetOf(s3calls[i].rec)
                name == LastComponent(in.Key)
                base == IF OnlyDotsBeforePdf(name) THEN name
                        ELSE DropPdfSuffix(name)
            IN  /\ s3calls[i].Bucket = in.Bucket
                /\ s3calls[i].Bucket = event.records[s3calls[i].rec].bucket
                /\ s3calls[i].Key =
                        cfg.output \o <<"/">> \o base \o <<".","x","l","s","x">>
                /\ s3calls[i].ContentType = XLSX_MIME

\* report.pdf and sub/dir/report.PDF are both written to
\* output-files/report.xlsx, each in its own bucket
C5_Witness ==
    /\ pc = "done"
    /\ cfg.output = DefaultOutputFolder
    /\ Len(event.records) = 2
    /\ event.records[1].key = KeyReport(DefaultInputFolder)
    /\ event.records[2].key = KeyDeepUpper(DefaultInputFolder)
    /\ \A j \in 1..2 : \E i \in PutsOf(j) :
            /\ s3calls[i].Key =
                    <<"o","u","t","p","u","t","-","f","i","l","e","s","/",
                      "r","e","p","o","r","t",".","x","l","s","x">>
            /\ s3calls[i].Bucket = event.records[j].bucket
    /\ event.records[1].bucket # event.records[2].bucket

\* no table in any page of the document holds a row
NoTableDetected(doc) ==
    /\ doc.valid
    /\ \A p \in 1..Len(doc.pages) :
            \A t \in 1..Len(doc.pages[p]) : doc.pages[p][t] = <<>>

\* C8: when the document read yields zero tables, the record's conversion
\* makes exactly one write, of a workbook with exactly one sheet holding
\* exactly one cell, the message "No tables found in the PDF file".
C8_PlaceholderWorkbook ==
    \A i \in 1..Len(s3calls) :
        (/\ s3calls[i].op = "get_object"
         /\ s3calls[i].outcome = "ok"
         /\ NoTableDetected(s3calls[i].Read))
        => /\ Cardinality(PutsOf(s3calls[i].rec)) = 1
           /\ i + 1 \in PutsOf(s3calls[i].rec)
           /\ Len(s3calls[i + 1].Body) = 1
           /\ DOMAIN s3calls[i + 1].Body[1].cells = {<<1, 1>>}
           /\ s3calls[i + 1].Body[1].cells[<<1, 1>>] =
                  PyStr(<<"N","o"," ","t","a","b","l","e","s"," ",
                          "f","o","u","n","d"," ","i","n"," ","t","h","e"," ",
                          "P","D","F"," ","f","i","l","e">>)

C8_Witness ==
    /\ pc = "done"
    /\ Status = 200
    /\ \E i \in 1..Len(s3calls) :
            /\ s3calls[i].op = "get_object"
            /\ s3calls[i].outcome = "ok"
            /\ s3calls[i].Read = PdfDoc(<< << <<>> >> >>)
            /\ PutsOf(s3calls[i].rec) = {i + 1}

\* C10: every key written ends in ".xlsx"; the notification of a written
\* object is skipped, with no storage call and status 200, whatever the two
\* folder names are, and no further notification follows it.
C10_NoSelfConversion ==
    /\ \A i \in 1..Len(s3calls) :
            s3calls[i].op = "put_object" =>
                FinishesWith(s3calls[i].Key, <<".","x","l","s","x">>)
    /\ selfTrig =>
            /\ Len(event.records) = 1
            /\ event.records[1].wf
            /\ FinishesWith(UnquotePlus(event.records[1].key),
                            <<".","x","l","s","x">>)
            /\ s3calls = <<>>
            /\ raised = NoExc
            /\ pc = "done" => (Status = 200 /\ ~ENABLED SelfNotify)

C10_Witness ==
    /\ selfTrig
    /\ pc = "done"
    /\ cfg.input = cfg.output
    /\ BeginsWith(UnquotePlus(event.records[1].key), cfg.input \o <<"/">>)
    /\ Status = 200
    /\ s3calls = <<>>

\* the workbook as a reader of it sees it: sheet n (1-based) is named
\* "Table_<n>", holds a cell exactly where table n has one, with its value
SheetShowsTable(n, sheet, table) ==
    /\ sheet.title =
           <<"T","a","b","l","e","_">>
           \o (IF n < 10 THEN <<DecDigits[n + 1]>>
               ELSE <<DecDigits[(n \div 10) + 1], DecDigits[(n % 10) + 1]>>)
    /\ \A r \in 1..Len(table) : \A c \in 1..Len(table[r]) :
            /\ <<r, c>> \in DOMAIN sheet.cells
            /\ sheet.cells[<<r, c>>] = table[r][c]
    /\ \A pos \in DOMAIN sheet.cells :
            /\ pos[1] \in 1..Len(table)
            /\ pos[2] \in 1..Len(table[pos[1]])

WorkbookShowsTables(wb, tables) ==
    /\ Len(wb) = Len(tables)
    /\ \A n \in 1..Len(tables) : SheetShowsTable(n, wb[n], tables[n])

Built == tpc \in {"built", "piped"}

RECURSIVE Detected(_)
Detected(pages) ==
    IF pages = <<>> THEN <<>> ELSE Head(pages) \o Detected(Tail(pages))

\* the tables among them that hold at least one row
RECURSIVE NonEmpty(_)
NonEmpty(tables) ==
    IF tables = <<>> THEN <<>>
    ELSE IF Head(tables) = <<>> THEN NonEmpty(Tail(tables))
    ELSE <<Head(tables)>> \o NonEmpty(Tail(tables))

\* the string a detected cell shows as
CellText(cell) ==
    CASE cell = PyNone -> <<>>
      [] cell.t = "str" -> cell.v
      [] cell = PyInt(7) -> <<"7">>
      [] cell = PyInt(12) -> <<"1","2">>

Extracted == tpc \in {"extracted", "piped"}

\* C7: every cell of every extracted table is a string: the empty string
\* where the detector reported no text, the string of the value otherwise.
C7_CellsAreStrings ==
    Extracted =>
        /\ \A n \in 1..Len(ttables) : \A r \in 1..Len(ttables[n]) :
                \A c \in 1..Len(ttables[n][r]) :
                    /\ ttables[n][r][c].t = "str"
                    /\ ttables[n][r][c] # PyNone
        /\ LET det == NonEmpty(Detected(tdoc.pages))
           IN  /\ Len(det) = Len(ttables)
               /\ \A n \in 1..Len(det) :
                       /\ Len(ttables[n]) = Len(det[n])
                       /\ \A r \in 1..Len(det[n]) :
                               /\ Len(ttables[n][r]) = Len(det[n][r])
                               /\ \A c \in 1..Len(det[n][r]) :
                                       ttables[n][r][c] =
                                           [t |-> "str", v |-> CellText(det[n][r][c])]

C7_Witness ==
    /\ tpc = "extracted"
    /\ tdoc = PdfDoc(<< <<TableA>> >>)
    /\ tdoc.pages[1][1][1][2] = PyNone
    /\ ttables[1][1][2] = PyStr(<<>>)
    /\ ttables[1][2][1] = PyStr(<<"7">>)

\* the cells of a table, each as the string it shows as
AsText(table) ==
    [r \in 1..Len(table) |->
        [c \in 1..Len(table[r]) |-> [t |-> "str", v |-> CellText(table[r][c])]]]

\* C9 as stated: the TableSet is the detector's tables, concatenated in page
\* order and detection order, none dropped, merged or moved, rows and cells
\* in the detector's order.
C9_AllTablesInOrder ==
    Extracted =>
        LET det == Detected(tdoc.pages)
        IN  /\ Len(ttables) = Len(det)
            /\ \A n \in 1..Len(det) : ttables[n] = AsText(det[n])

\* C9 as amended: ... the detector's tables that hold at least one row; a
\* table without rows is left out.
C9_TablesInOrder ==
    Extracted =>
        LET det == NonEmpty(Detected(tdoc.pages))
        IN  /\ Len(ttables) = Len(det)
            /\ \A n \in 1..Len(det) : ttables[n] = AsText(det[n])

\* two pages, the second with two tables, one of them twice in the document
C9_Witness ==
    /\ tpc = "extracted"
    /\ tdoc = PdfDoc(<< <<TableB>>, <<TableA, TableB>> >>)
    /\ Len(ttables) = 3
    /\ ttables[1] = ttables[3]
    /\ ttables[2][2][1] = PyStr(<<"7">>)

====
